---- MODULE Spec2Model ----
(***************************************************************************)
(* Model of src/index.py: the browser agent loop (run_agent_loop), the     *)
(* action executor (execute_function_calls), the safety gate               *)
(* (get_safety_confirmation) and the response builder                      *)
(* (get_function_responses).                                               *)
(*                                                                         *)
(* Environment: the remote model call and page.screenshot()/page.url are   *)
(* taken to return; a browser input call inside the executor's try block   *)
(* may raise at any event.                                                 *)
(***************************************************************************)
EXTENDS Integers, Sequences, FiniteSets, TLC

VARIABLES
    pc,                 \* control position: "main" | "model" | "dispatch" | "gate" | "try" | "capture" | "exit"
    session,            \* number of goals main() has handed to run_agent_loop
    contents,           \* conversation history
    turn,               \* number of loop iterations started (i + 1)
    candidate,          \* parts of the model turn of this iteration
    function_calls,     \* the function calls filtered out of candidate
    idx,                \* position of the executor's for loop in function_calls
    results,            \* results list of execute_function_calls
    terminated,         \* terminated flag of execute_function_calls
    extra_fr_fields,    \* extra_fr_fields of the current function call
    decision,           \* decision local of get_safety_confirmation
    trace,              \* log of gate verdicts, browser calls and captures of this batch
    function_responses, \* responses built for this batch
    page_url,           \* page.url of the shared page
    shots,              \* number of screenshots taken in this session
    reason,             \* how the last session ended
    rich_left,          \* whether a later model turn of this session may carry an arbitrary batch
    user_goal,          \* user_goal parameter of run_agent_loop
    probe               \* operands and result of a coordinate conversion made on its own

vars == <<pc, session, contents, turn, candidate, function_calls, idx, results,
          terminated, extra_fr_fields, decision, trace, function_responses,
          page_url, shots, reason, rich_left, user_goal, probe>>

-----------------------------------------------------------------------------
(* Bounds *)

MaxBatch == 2

MaxSessions == 2

\* viewport dimensions 1..MaxDim are converted besides the deployed 1440 x 900
MaxDim == 50

\* scroll magnitudes 0..MaxMagnitude are requested besides -1 and 500
MaxMagnitude == 3

-----------------------------------------------------------------------------
(* Program constants *)

SCREEN_WIDTH == 1440

SCREEN_HEIGHT == 900

turn_limit_off_by_one == 10 + 1

turn_limit == 10

DefaultMagnitude == 800

-----------------------------------------------------------------------------
(* Python values *)

EmptyDict == [k \in {} |-> 0]

\* dict.update
Update(d1, d2) ==
    [k \in (DOMAIN d1) \cup (DOMAIN d2) |-> IF k \in DOMAIN d2 THEN d2[k] ELSE d1[k]]

\* dict.get(key, default)
Get(d, k, default) == IF k \in DOMAIN d THEN d[k] ELSE default

\* a JSON value held under the safety_decision key: its Python type and, for a dict, its keys
DictValue(keys) == [type |-> "dict", keys |-> keys]

StrValue == [type |-> "str", keys |-> {}]

NoneValue == [type |-> "NoneType", keys |-> {}]

\* str.lower on the operator inputs and direction names that occur
Lower(s) ==
    CASE s = "YES" -> "yes"
      [] s = "Yes" -> "yes"
      [] s = "Y" -> "y"
      [] s = "NO" -> "no"
      [] s = "No" -> "no"
      [] s = "N" -> "n"
      [] s = "Maybe" -> "maybe"
      [] s = "DOWN" -> "down"
      [] s = "Down" -> "down"
      [] s = "UP" -> "up"
      [] s = "Up" -> "up"
      [] s = "LEFT" -> "left"
      [] s = "Left" -> "left"
      [] s = "RIGHT" -> "right"
      [] s = "Right" -> "right"
      [] s = "ENTER" -> "enter"
      [] s = "Enter" -> "enter"
      [] OTHER -> s

\* str.strip on the operator inputs and key names that occur
Strip(s) ==
    CASE s = " Yes " -> "Yes"
      [] s = " n" -> "n"
      [] s = " " -> ""
      [] s = " tab " -> "tab"
      [] OTHER -> s

\* str.title on the key names that occur
Title(s) ==
    CASE s = "ctrl+a" -> "Ctrl+A"
      [] s = "CTRL+A" -> "Ctrl+A"
      [] s = "escape" -> "Escape"
      [] s = "pagedown" -> "Pagedown"
      [] s = "PageDown" -> "Pagedown"
      [] s = "tab" -> "Tab"
      [] OTHER -> s

-----------------------------------------------------------------------------
(* Pure helpers of src/index.py *)

\* x / 1000 * dim in IEEE double arithmetic falls just below the exact integer
\* product for these operands, so that int() truncates to one less
FloatBelow == {<<175, 1440>>, <<350, 1440>>, <<575, 1440>>, <<700, 1440>>, <<580, 50>>}

Denormalize_inverted(v, dim) == ((1000 - v) * dim) \div 1000

Denormalize_rounds(v, dim) == (v * dim + 500) \div 1000

\* int(v / 1000 * dim) for v >= 0
Denormalize(v, dim) ==
    IF <<v, dim>> \in FloatBelow THEN ((v * dim) \div 1000) - 1 ELSE (v * dim) \div 1000

denormalize_x(x, screen_width) == Denormalize(x, screen_width)

denormalize_y(y, screen_height) == Denormalize(y, screen_height)

HasScheme(url) == url \in {"http://example.com", "https://example.com", "https://www.google.com"}

ensure_url_scheme(url) ==
    IF HasScheme(url) THEN url
    ELSE IF url # "" THEN "https://" \o url ELSE url

AcceptedTokens_upper == {"Y", "N", "YES", "NO"}

AcceptedTokens_with_default == {"y", "n", "yes", "no", ""}

AcceptedTokens == {"y", "n", "yes", "no"}

\* the verdict get_safety_confirmation returns once the while loop has ended
Verdict(d) == IF Lower(d) \in {"n", "no"} THEN "TERMINATE" ELSE "CONTINUE"

-----------------------------------------------------------------------------
(* The browser calls one action makes (the try block of execute_function_calls) *)

Ev(ev, s, x, y) == [ev |-> ev, s |-> s, x |-> x, y |-> y]

NoSteps == [error |-> "", events |-> <<>>]

Raise(msg) == [error |-> msg, events |-> <<>>]

NavigateSteps(args) ==
    LET url == ensure_url_scheme(Get(args, "url", ""))
    IN  IF url = "" THEN Raise("Missing 'url' argument for navigate")
        ELSE [error |-> "", events |-> <<Ev("goto", url, 0, 0)>>]

ClickSteps(args) ==
    IF "x" \notin DOMAIN args THEN Raise("'x'")
    ELSE IF "y" \notin DOMAIN args THEN Raise("'y'")
    ELSE [error |-> "",
          events |-> <<Ev("click", "", denormalize_x(args.x, SCREEN_WIDTH),
                          denormalize_y(args.y, SCREEN_HEIGHT))>>]

TypeSteps_enter_first(args) ==
    IF "x" \notin DOMAIN args THEN Raise("'x'")
    ELSE IF "y" \notin DOMAIN args THEN Raise("'y'")
    ELSE LET actual_x == denormalize_x(args.x, SCREEN_WIDTH)
             actual_y == denormalize_y(args.y, SCREEN_HEIGHT)
             text == Get(args, "text", "")
             press_enter == Get(args, "press_enter", TRUE)
             clear_before_typing == Get(args, "clear_before_typing", TRUE)
         IN  [error |-> "",
              events |-> <<Ev("click", "", actual_x, actual_y)>>
                         \o (IF clear_before_typing
                             THEN <<Ev("press", "Meta+A", 0, 0), Ev("press", "Backspace", 0, 0)>>
                             ELSE <<>>)
                         \o (IF press_enter THEN <<Ev("press", "Enter", 0, 0)>> ELSE <<>>)
                         \o (IF text # "" THEN <<Ev("type", text, 0, 0)>> ELSE <<>>)]

TypeSteps(args) ==
    IF "x" \notin DOMAIN args THEN Raise("'x'")
    ELSE IF "y" \notin DOMAIN args THEN Raise("'y'")
    ELSE LET actual_x == denormalize_x(args.x, SCREEN_WIDTH)
             actual_y == denormalize_y(args.y, SCREEN_HEIGHT)
             text == Get(args, "text", "")
             press_enter == Get(args, "press_enter", TRUE)
             clear_before_typing == Get(args, "clear_before_typing", TRUE)
         IN  [error |-> "",
              events |-> <<Ev("click", "", actual_x, actual_y)>>
                         \o (IF clear_before_typing
                             THEN <<Ev("press", "Meta+A", 0, 0), Ev("press", "Backspace", 0, 0)>>
                             ELSE <<>>)
                         \o (IF text # "" THEN <<Ev("type", text, 0, 0)>> ELSE <<>>)
                         \o (IF press_enter THEN <<Ev("press", "Enter", 0, 0)>> ELSE <<>>)]

KeySteps(args) ==
    LET keys == Strip(Get(args, "keys", ""))
        normalized == IF Lower(keys) # "enter" THEN Title(keys) ELSE "Enter"
    IN  IF keys = "" THEN Raise("Missing 'keys' argument for key_combination")
        ELSE [error |-> "", events |-> <<Ev("press", normalized, 0, 0)>>]

ScrollSteps_unsigned(args) ==
    LET given == Get(args, "direction", "")
        direction == Lower(IF given = "" THEN "down" ELSE given)
        magnitude == Get(args, "magnitude", DefaultMagnitude)
        dx == IF direction \in {"left", "right"} THEN magnitude ELSE 0
        dy == IF direction \in {"up", "down"} THEN magnitude ELSE 0
    IN  IF direction \notin {"up", "down", "left", "right"}
        THEN Raise("direction must be up, down, left, or right")
        ELSE [error |-> "", events |-> <<Ev("wheel", "", dx, dy)>>]

ScrollSteps(args) ==
    LET given == Get(args, "direction", "")
        direction == Lower(IF given = "" THEN "down" ELSE given)
        magnitude == Get(args, "magnitude", DefaultMagnitude)
        dx == IF direction = "right" THEN magnitude
              ELSE IF direction = "left" THEN -magnitude ELSE 0
        dy == IF direction = "down" THEN magnitude
              ELSE IF direction = "up" THEN -magnitude ELSE 0
    IN  IF direction \notin {"up", "down", "left", "right"}
        THEN Raise("direction must be up, down, left, or right")
        ELSE [error |-> "", events |-> <<Ev("wheel", "", dx, dy)>>]

\* what the if/elif chain on fname does: the error it raises before any browser
\* call, or the browser calls it makes, in order
ActionSteps(fname, args) ==
    CASE fname = "open_web_browser" -> NoSteps
      [] fname = "navigate" -> NavigateSteps(args)
      [] fname = "click_at" -> ClickSteps(args)
      [] fname = "type_text_at" -> TypeSteps(args)
      [] fname = "key_combination" -> KeySteps(args)
      [] fname = "scroll_document" -> ScrollSteps(args)
      [] OTHER -> NoSteps

\* the message of an exception a browser call raises
BrowserError == "browser error"

\* one entry of the batch log: the call at position pos made browser call e, which
\* returned (ok) or raised
Logged(pos, e, ok) == [pos |-> pos, ev |-> e.ev, s |-> e.s, x |-> e.x, y |-> e.y, ok |-> ok]

InputEvents == {"goto", "click", "type", "press", "wheel"}

\* the log of an action whose browser calls are evs and whose fail-th call raises
\* (fail = 0: none raises)
RunLog(pos, evs, fail) ==
    [k \in 1..(IF fail = 0 THEN Len(evs) ELSE fail) |-> Logged(pos, evs[k], k # fail)]

\* the settle step: the quiescence wait and the pause. A timeout of the wait is
\* swallowed and changes nothing the program keeps, so the wait is logged as made
SettleLog(pos) ==
    <<Logged(pos, Ev("wait_for_load_state", "networkidle", 5000, 0), TRUE),
      Logged(pos, Ev("sleep", "", 0, 0), TRUE)>>

-----------------------------------------------------------------------------
(* What the environment supplies: goals, model turns, operator inputs *)

Goals == {"goal A", "goal B"}

\* what the operator may type at the safety prompt
Tokens == {"y", " Yes ", "n", "NO", "", "maybe"}

Call(name, args) == [name |-> name, args |-> args]

TextPart(t) == [text |-> t]

CallPart(c) == [function_call |-> c]

PlainCall == Call("open_web_browser", EmptyDict)

\* the action requests a model turn is drawn from
Requests ==
    { PlainCall,
      Call("type_text_at", [x |-> 175, y |-> 500, text |-> "hi",
                            safety_decision |-> DictValue({"explanation"})]),
      Call("navigate", [url |-> "example.com", safety_decision |-> StrValue]),
      Call("navigate", [url |-> ""]) }

Batches == UNION { [1..n -> Requests] : n \in 1..MaxBatch }

\* a model turn with text only
FinalReply == <<TextPart("done")>>

\* a model turn with a text part and one open_web_browser call
PlainReply == <<TextPart("opening"), CallPart(PlainCall)>>

RichReplies == { [i \in 1..Len(b) |-> CallPart(b[i])] : b \in Batches }

\* The model's turns: text only, the plain batch, or, once per session and at any
\* turn, an arbitrary batch over Requests
ModelReplies(rich) == {FinalReply, PlainReply} \cup (IF rich THEN RichReplies ELSE {})

-----------------------------------------------------------------------------
(* Operators over the loop's data *)

IsCallPart(part) == "function_call" \in DOMAIN part

FunctionCallsOf_reversed(parts) ==
    LET calls == SelectSeq(parts, IsCallPart)
    IN  [i \in 1..Len(calls) |-> calls[Len(calls) + 1 - i].function_call]

FunctionCallsOf_first_only(parts) ==
    LET calls == SelectSeq(parts, IsCallPart)
    IN  [i \in 1..(IF calls = <<>> THEN 0 ELSE 1) |-> calls[i].function_call]

\* the function calls of a model turn, in order (the filter loop)
FunctionCallsOf(parts) ==
    LET calls == SelectSeq(parts, IsCallPart)
    IN  [i \in 1..Len(calls) |-> calls[i].function_call]

has_function_calls_always(parts) == TRUE

has_function_calls(parts) == \E i \in 1..Len(parts) : IsCallPart(parts[i])

\* isinstance(safety_decision, dict)
IsDict(v) == v.type = "dict"

Result(fname, action_result, extra) ==
    [name |-> fname, result |-> action_result, extra |-> extra]

RejectedResult_acknowledged(fname) ==
    Result(fname, [terminated_by_user |-> TRUE], [safety_acknowledgement |-> "true"])

\* the result appended when the operator rejects
RejectedResult(fname) ==
    Result(fname, [terminated_by_user |-> TRUE], [safety_acknowledgement |-> "false"])

ApprovedFields_none == EmptyDict

\* extra_fr_fields after the operator approves
ApprovedFields == [safety_acknowledgement |-> "true"]

AfterVerdict_no_break(verdict) == "try"

\* where the executor goes after the gate returned: break on TERMINATE
AfterVerdict(verdict) == IF verdict = "TERMINATE" THEN "capture" ELSE "try"

AfterAction_abort(error) == IF error = "" THEN "dispatch" ELSE "capture"

\* where the executor goes after the try/except of one action
AfterAction(error) == "dispatch"

ResponseOf(r, current_url, screenshot_bytes) ==
    [name |-> r.name,
     response |-> Update(Update([url |-> current_url], r.result), r.extra),
     data |-> screenshot_bytes]

BuildResponses_skip_empty(rs, current_url, screenshot_bytes) ==
    LET kept == SelectSeq(rs, LAMBDA r : DOMAIN r.result # {})
    IN  [i \in 1..Len(kept) |-> ResponseOf(kept[i], current_url, screenshot_bytes)]

\* the loop of get_function_responses over results
BuildResponses(rs, current_url, screenshot_bytes) ==
    [i \in 1..Len(rs) |-> ResponseOf(rs[i], current_url, screenshot_bytes)]

ToolTurn_as_model(frs) == [role |-> "model", parts |-> [i \in 1..Len(frs) |-> [function_response |-> frs[i]]]]

ToolTurn(frs) == [role |-> "user", parts |-> [i \in 1..Len(frs) |-> [function_response |-> frs[i]]]]

ModelTurn(parts) == [role |-> "model", parts |-> parts]

AppendTurn_replace_last(history, entry) == Append(SubSeq(history, 1, Len(history) - 1), entry)

\* contents.append
AppendTurn(history, entry) == Append(history, entry)

InitialContents_keeps_history(goal) ==
    Append(contents, [role |-> "user", parts |-> <<TextPart(goal)>>])

\* the history run_agent_loop starts from
InitialContents(goal) == <<[role |-> "user", parts |-> <<TextPart(goal)>>]>>

-----------------------------------------------------------------------------
(* State machine *)

Init ==
    /\ pc = "main"
    /\ session = 0
    /\ contents = <<>>
    /\ turn = 0
    /\ candidate = <<>>
    /\ function_calls = <<>>
    /\ idx = 1
    /\ results = <<>>
    /\ terminated = FALSE
    /\ extra_fr_fields = EmptyDict
    /\ decision = ""
    /\ trace = <<>>
    /\ function_responses = <<>>
    /\ page_url = "https://www.google.com"
    /\ shots = 0
    /\ reason = "none"
    /\ rich_left = FALSE
    /\ user_goal = ""
    /\ probe = <<>>

\* main(): read a goal and call run_agent_loop with it
ReadGoal ==
    /\ pc = "main"
    /\ session < MaxSessions
    /\ \E goal \in Goals :
        /\ user_goal' = goal
        /\ contents' = InitialContents(goal)
    /\ session' = session + 1
    /\ pc' = "model"
    /\ turn' = 0
    /\ candidate' = <<>>
    /\ function_calls' = <<>>
    /\ idx' = 1
    /\ results' = <<>>
    /\ terminated' = FALSE
    /\ extra_fr_fields' = EmptyDict
    /\ decision' = ""
    /\ trace' = <<>>
    /\ function_responses' = <<>>
    /\ shots' = 0
    /\ reason' = "none"
    /\ rich_left' = TRUE
    /\ UNCHANGED <<page_url, probe>>

\* main(): the operator types exit or quit
Exit ==
    /\ pc = "main"
    /\ pc' = "exit"
    /\ UNCHANGED <<session, contents, turn, candidate, function_calls, idx, results,
                   terminated, extra_fr_fields, decision, trace, function_responses,
                   page_url, shots, reason, rich_left, user_goal, probe>>

\* run_agent_loop: one model invocation, the append of its turn, the final-answer test
GenerateContent ==
    /\ pc = "model"
    /\ \E reply \in ModelReplies(rich_left) :
        /\ candidate' = reply
        /\ contents' = AppendTurn(contents, ModelTurn(reply))
        /\ rich_left' = (rich_left /\ reply \in {FinalReply, PlainReply})
        /\ IF has_function_calls(reply)
           THEN /\ pc' = "dispatch"
                /\ function_calls' = FunctionCallsOf(reply)
                /\ reason' = reason
           ELSE /\ pc' = "main"
                /\ function_calls' = <<>>
                /\ reason' = "FinalAnswer"
    /\ turn' = turn + 1
    /\ idx' = 1
    /\ results' = <<>>
    /\ terminated' = FALSE
    /\ extra_fr_fields' = EmptyDict
    /\ decision' = ""
    /\ trace' = <<>>
    /\ function_responses' = <<>>
    /\ UNCHANGED <<session, page_url, shots, user_goal, probe>>

\* execute_function_calls: the head of the for loop and the safety_decision test
Dispatch ==
    /\ pc = "dispatch"
    /\ IF idx > Len(function_calls)
       THEN /\ pc' = "capture"
            /\ UNCHANGED <<extra_fr_fields, decision>>
       ELSE LET args == function_calls[idx].args
            IN  /\ extra_fr_fields' = EmptyDict
                /\ decision' = ""
                /\ pc' = IF IsDict(Get(args, "safety_decision", NoneValue)) THEN "gate" ELSE "try"
    /\ UNCHANGED <<session, contents, turn, candidate, function_calls, idx, results,
                   terminated, trace, function_responses, page_url, shots, reason, rich_left,
                   user_goal, probe>>

\* get_safety_confirmation: one input() of the while loop, and what the executor
\* does with the verdict once the loop ends
SafetyPrompt ==
    /\ pc = "gate"
    /\ \E token \in Tokens :
        LET d == Strip(token)
            fname == function_calls[idx].name
        IN  /\ decision' = d
            /\ IF Lower(d) \in AcceptedTokens
               THEN /\ trace' = Append(trace, Logged(idx, Ev("gate", Verdict(d), 0, 0), TRUE))
                    /\ pc' = AfterVerdict(Verdict(d))
                    /\ IF Verdict(d) = "TERMINATE"
                       THEN /\ terminated' = TRUE
                            /\ results' = Append(results, RejectedResult(fname))
                            /\ extra_fr_fields' = [safety_acknowledgement |-> "false"]
                       ELSE /\ extra_fr_fields' = ApprovedFields
                            /\ UNCHANGED <<terminated, results>>
               ELSE /\ pc' = "gate"
                    /\ UNCHANGED <<trace, terminated, results, extra_fr_fields>>
    /\ UNCHANGED <<session, contents, turn, candidate, function_calls, idx,
                   function_responses, page_url, shots, reason, rich_left, user_goal, probe>>

\* execute_function_calls: the try/except of one function call, the settle step
\* and results.append
PerformAction ==
    /\ pc = "try"
    /\ LET fname == function_calls[idx].name
           steps == ActionSteps(fname, function_calls[idx].args)
           evs == steps.events
       IN  IF steps.error # ""
           THEN /\ results' = Append(results, Result(fname, [error |-> steps.error], extra_fr_fields))
                /\ pc' = AfterAction(steps.error)
                /\ UNCHANGED <<trace, page_url>>
           ELSE \E fail \in 0..Len(evs) :
                /\ trace' = trace \o RunLog(idx, evs, fail)
                                  \o (IF fail = 0 THEN SettleLog(idx) ELSE <<>>)
                /\ page_url' = IF \E k \in 1..Len(evs) : evs[k].ev = "goto" /\ fail = 0
                               THEN evs[1].s ELSE page_url
                /\ results' = Append(results,
                       Result(fname, IF fail = 0 THEN EmptyDict ELSE [error |-> BrowserError],
                              extra_fr_fields))
                /\ pc' = AfterAction(IF fail = 0 THEN "" ELSE BrowserError)
    /\ idx' = idx + 1
    /\ decision' = ""
    /\ UNCHANGED <<session, contents, turn, candidate, function_calls, terminated,
                   extra_fr_fields, function_responses, shots, reason, rich_left,
                   user_goal, probe>>

\* run_agent_loop: get_function_responses, the append of the tool turn, the
\* terminated test and the end of the for loop over range(turn_limit)
CaptureState ==
    /\ pc = "capture"
    /\ LET screenshot_bytes == shots + 1
           frs == BuildResponses(results, page_url, screenshot_bytes)
       IN  /\ function_responses' = frs
           /\ contents' = AppendTurn(contents, ToolTurn(frs))
    /\ shots' = shots + 1
    /\ trace' = Append(trace, Logged(0, Ev("screenshot", page_url, 0, 0), TRUE))
    /\ IF terminated
       THEN pc' = "main" /\ reason' = "UserTerminated"
       ELSE IF turn >= turn_limit
            THEN pc' = "main" /\ reason' = "TurnLimitReached"
            ELSE pc' = "model" /\ reason' = reason
    /\ decision' = ""
    /\ UNCHANGED <<session, turn, candidate, function_calls, idx, results, terminated,
                   extra_fr_fields, page_url, rich_left, user_goal, probe>>

Next ==
    \/ ReadGoal
    \/ Exit
    \/ GenerateContent
    \/ Dispatch
    \/ SafetyPrompt
    \/ PerformAction
    \/ CaptureState

Spec == Init /\ [][Next]_vars

TypeOK ==
    /\ pc \in {"main", "model", "dispatch", "gate", "try", "capture", "exit"}
    /\ session \in 0..MaxSessions
    /\ turn \in Nat
    /\ terminated \in BOOLEAN
    /\ reason \in {"none", "FinalAnswer", "UserTerminated", "TurnLimitReached"}

-----------------------------------------------------------------------------
(* The coordinate conversion on its own *)

loop_vars == <<pc, session, contents, turn, candidate, function_calls, idx, results,
               terminated, extra_fr_fields, decision, trace, function_responses,
               page_url, shots, reason, rich_left, user_goal>>

LoopInit ==
    /\ pc = "main"
    /\ session = 0
    /\ contents = <<>>
    /\ turn = 0
    /\ candidate = <<>>
    /\ function_calls = <<>>
    /\ idx = 1
    /\ results = <<>>
    /\ terminated = FALSE
    /\ extra_fr_fields = EmptyDict
    /\ decision = ""
    /\ trace = <<>>
    /\ function_responses = <<>>
    /\ page_url = "https://www.google.com"
    /\ shots = 0
    /\ reason = "none"
    /\ rich_left = FALSE
    /\ user_goal = ""

Normalized == 0..1000

Dims == (1..MaxDim) \cup {SCREEN_WIDTH, SCREEN_HEIGHT}

InitPixel ==
    /\ LoopInit
    /\ probe \in [axis : {"x", "y"}, v : Normalized, dim : Dims,
                   done : {FALSE}, px : {0}, px_next : {0}]

\* denormalize_x / denormalize_y applied to v and to the next normalized coordinate
ConvertPixel ==
    /\ probe.done = FALSE
    /\ LET next == IF probe.v < 1000 THEN probe.v + 1 ELSE probe.v
       IN  probe' = [probe EXCEPT
                        !.done = TRUE,
                        !.px = IF probe.axis = "x" THEN denormalize_x(probe.v, probe.dim)
                               ELSE denormalize_y(probe.v, probe.dim),
                        !.px_next = IF probe.axis = "x" THEN denormalize_x(next, probe.dim)
                                    ELSE denormalize_y(next, probe.dim)]
    /\ UNCHANGED loop_vars

NextPixel == ConvertPixel

SpecPixel == InitPixel /\ [][NextPixel]_vars

-----------------------------------------------------------------------------
(* One session whose first model turn carries a single action request of any kind *)

Directions == {"down", "up", "left", "right", "UP", "Down", "Left", "RIGHT", "", "diagonal"}

Magnitudes == (0..MaxMagnitude) \cup {-1, 500}

Optional(key, values) == {EmptyDict} \cup {[k \in {key} |-> v] : v \in values}

ScrollRequests ==
    { Call("scroll_document", Update(d, m)) :
        d \in Optional("direction", Directions), m \in Optional("magnitude", Magnitudes) }

TypeRequests ==
    { Call("type_text_at", Update(Update(Update([x |-> 175, y |-> 500], t), c), e)) :
        t \in Optional("text", {"", "hi"}),
        c \in Optional("clear_before_typing", BOOLEAN),
        e \in Optional("press_enter", BOOLEAN) }
    \cup { Call("type_text_at", [y |-> 500, text |-> "hi"]),
           Call("type_text_at", [x |-> 175, text |-> "hi"]) }

KeyRequests ==
    { Call("key_combination", k) :
        k \in Optional("keys", {"", "enter", "ENTER", "ctrl+a", " tab "}) }

OtherRequests ==
    { Call("open_web_browser", EmptyDict),
      Call("drag_and_drop", [x |-> 1, y |-> 2]),
      Call("click_at", [x |-> 350, y |-> 1000]),
      Call("click_at", [y |-> 1000]),
      Call("click_at", [x |-> 350, y |-> 1000,
                        safety_decision |-> DictValue({"explanation"})]),
      Call("navigate", [url |-> "example.com"]),
      Call("navigate", [url |-> "https://example.com"]),
      Call("navigate", EmptyDict) }

ActionRequests == ScrollRequests \cup TypeRequests \cup KeyRequests \cup OtherRequests

\* the state run_agent_loop is in after its first model turn, a reply drawn from
\* replies; the later turns of the session are plain
FirstTurn(replies) ==
    /\ \E goal \in Goals, reply \in replies :
        /\ user_goal = goal
        /\ candidate = reply
        /\ contents = AppendTurn(InitialContents(goal), ModelTurn(reply))
        /\ function_calls = FunctionCallsOf(reply)
    /\ pc = "dispatch"
    /\ session = 1
    /\ turn = 1
    /\ idx = 1
    /\ results = <<>>
    /\ terminated = FALSE
    /\ extra_fr_fields = EmptyDict
    /\ decision = ""
    /\ trace = <<>>
    /\ function_responses = <<>>
    /\ page_url = "https://www.google.com"
    /\ shots = 0
    /\ reason = "none"
    /\ rich_left = FALSE
    /\ probe = <<>>

InitAction == FirstTurn({ <<CallPart(request)>> : request \in ActionRequests })

NextAction ==
    \/ Exit
    \/ GenerateContent
    \/ Dispatch
    \/ SafetyPrompt
    \/ PerformAction
    \/ CaptureState

SpecAction == InitAction /\ [][NextAction]_vars

-----------------------------------------------------------------------------
(* One session whose first model turn is any batch, under fair scheduling *)

InitLive == FirstTurn(RichReplies)

\* the operator enters an accepted token: the while loop of get_safety_confirmation ends
GateReturns == SafetyPrompt /\ pc' # "gate"

\* Every remote model call returns, every browser call returns (or raises), and
\* the operator eventually enters an accepted token at every safety prompt
Fairness ==
    /\ WF_vars(GenerateContent)
    /\ WF_vars(Dispatch)
    /\ WF_vars(PerformAction)
    /\ WF_vars(CaptureState)
    /\ WF_vars(GateReturns)

SpecLive == InitLive /\ [][NextAction]_vars /\ Fairness

-----------------------------------------------------------------------------
(* Vocabulary of the properties *)

Last(seq) == seq[Len(seq)]

IsPrefix(a, b) == Len(a) <= Len(b) /\ SubSeq(b, 1, Len(a)) = a

\* the action requests of a model turn, in order
RequestsOf(parts) ==
    LET at == SelectSeq([i \in 1..Len(parts) |-> i],
                        LAMBDA i : "function_call" \in DOMAIN parts[i])
    IN  [k \in 1..Len(at) |-> parts[at[k]].function_call]

CarriesSafety(call) == "safety_decision" \in DOMAIN call.args

WithoutSafety(args) == [k \in (DOMAIN args) \ {"safety_decision"} |-> args[k]]

IsInput(entry) == entry.ev \in InputEvents

IsGate(entry, verdict) == entry.ev = "gate" /\ entry.s = verdict

\* the browser calls logged for the action at position p, gate and capture left out
CallsAt(p) == SelectSeq(trace, LAMBDA e : e.pos = p /\ e.ev # "gate")

Approved(p) == \E k \in 1..Len(trace) : trace[k].pos = p /\ IsGate(trace[k], "CONTINUE")

Rejected(p) == \E k \in 1..Len(trace) : trace[k].pos = p /\ IsGate(trace[k], "TERMINATE")

\* the executor has returned for the batch of this turn
BatchDone == pc = "capture" \/ function_responses # <<>>

SessionOver == pc \in {"main", "exit"}

\* the wheel events the call at position p issued, as <<dx, dy>> pairs
WheelsAt(p) ==
    LET made == SelectSeq(CallsAt(p), LAMBDA e : e.ev = "wheel")
    IN  [k \in 1..Len(made) |-> <<made[k].x, made[k].y>>]

\* the wheel delta of a scroll in direction d by m
Delta(d, m) ==
    CASE d = "down" -> <<0, m>>
      [] d = "up" -> <<0, -m>>
      [] d = "right" -> <<m, 0>>
      [] d = "left" -> <<-m, 0>>

\* the single request of the first model turn has been run and is a call of fname
Ran(fname) == turn = 1 /\ results # <<>> /\ function_calls[1].name = fname

IsFailed(r) == "error" \in DOMAIN r.result

IsRejection(r) == "terminated_by_user" \in DOMAIN r.result

\* a history entry made of function responses
IsToolEntry(entry) ==
    /\ entry.role = "user"
    /\ entry.parts # <<>>
    /\ \A k \in 1..Len(entry.parts) : "function_response" \in DOMAIN entry.parts[k]

IsModelEntry(entry) == entry.role = "model"

\* the tool entry answers the requests of the model entry: its responses name the
\* first requests of that turn, in order
Answers(tool, model) ==
    LET requests == RequestsOf(model.parts)
    IN  /\ Len(tool.parts) <= Len(requests)
        /\ \A k \in 1..Len(tool.parts) :
               tool.parts[k].function_response.name = requests[k].name

\* the input events the call at position p made, in order
InputsAt(p) == SelectSeq(CallsAt(p), IsInput)

\* what a logged call was, without its position and outcome
What(e) == <<e.ev, e.s, e.x, e.y>>

-----------------------------------------------------------------------------
(* Properties *)

\* C1: in a batch, once the operator has rejected the safety decision of the action
\* at position i, every browser input event of the batch belongs to an action at a
\* position before i: none is performed for action i or for a later action.
C1_NoEventFromRejection ==
    \A k \in 1..Len(trace) :
        IsGate(trace[k], "TERMINATE") =>
            \A j \in 1..Len(trace) :
                IsInput(trace[j]) => (trace[j].pos < trace[k].pos /\ j < k)

\* C1 witness: the first of two requests was rejected, the second would have made
\* browser calls, and the session has ended
C1_Witness ==
    /\ SessionOver
    /\ Len(function_calls) >= 2
    /\ Rejected(1)
    /\ ActionSteps(function_calls[2].name, function_calls[2].args).events # <<>>

\* C2 (as claimed): every browser input event of an action whose request carries a
\* safety_decision field, in whatever form, comes after the gate returned Proceed
\* for that request in the same batch.
C2_GateBeforeEveryFlaggedAction ==
    \A j \in 1..Len(trace) :
        (IsInput(trace[j]) /\ CarriesSafety(function_calls[trace[j].pos])) =>
            \E k \in 1..(j - 1) :
                trace[k].pos = trace[j].pos /\ IsGate(trace[k], "CONTINUE")

\* C3: while a rejection stands the executor is about to hand over a results list
\* ending in the rejected action's result, or the session has ended as
\* user-terminated with a tool turn as last history entry whose last response is
\* that of the rejected action with acknowledgement "false"; and from then on the
\* session invokes the model no more.
C3_State ==
    terminated =>
        /\ results # <<>>
        /\ Last(results).name = function_calls[Len(results)].name
        /\ Rejected(Len(results))
        /\ \/ pc = "capture"
           \/ /\ SessionOver
              /\ reason = "UserTerminated"
              /\ Last(contents).role = "user"
              /\ Len(Last(contents).parts) = Len(results)
              /\ LET fr == Last(Last(contents).parts).function_response
                 IN  /\ fr.name = function_calls[Len(results)].name
                     /\ fr.response.safety_acknowledgement = "false"
                     /\ fr.response.terminated_by_user = TRUE

C3_Step ==
    (reason = "UserTerminated" /\ session' = session) =>
        (turn' = turn /\ contents' = contents /\ pc' # "model")

C3_RejectionReported == [](C3_State) /\ [][C3_Step]_vars

\* C3 witness: a session ended by a rejection
C3_Witness == terminated /\ SessionOver /\ reason = "UserTerminated" /\ turn >= 2

\* C4: for an action the operator approved, the browser calls made are a run of
\* the calls the same request makes without its safety decision (all of them and
\* the settle step when the result is Ok, the calls up to the one that raised
\* when it is Failed), and its result carries acknowledgement "true" either way.
C4_ApprovedRunsNormally ==
    \A p \in 1..Len(results) :
        Approved(p) =>
            LET call == function_calls[p]
                plan == ActionSteps(call.name, WithoutSafety(call.args))
                made == CallsAt(p)
            IN  /\ results[p].extra = [safety_acknowledgement |-> "true"]
                /\ IF "error" \in DOMAIN results[p].result
                   THEN \/ plan.error # "" /\ made = <<>>
                        \/ \E f \in 1..Len(plan.events) : made = RunLog(p, plan.events, f)
                   ELSE /\ plan.error = ""
                        /\ made = RunLog(p, plan.events, 0) \o SettleLog(p)

\* C4 witness: an approved action has succeeded and another approved action failed
C4_Witness ==
    /\ Len(results) >= 2
    /\ Approved(1) /\ Approved(2)
    /\ results[1].result = EmptyDict
    /\ "error" \in DOMAIN results[2].result

\* C5: the model is invoked at most 10 times in a session: the loop is never back
\* at the model call once 10 turns were made, and a session that ends on the turn
\* limit has made exactly 10.
C5_AtMostTenModelTurns ==
    /\ turn <= 10
    /\ pc = "model" => turn < 10
    /\ reason = "TurnLimitReached" => (turn = 10 /\ SessionOver /\ ~terminated)

\* C5 witness: ten model turns with action requests, none rejected
C5_Witness == reason = "TurnLimitReached" /\ turn = 10 /\ Len(contents) = 21

\* C6: a model turn without action requests ends the session as a final answer:
\* its entry is the last of the history, nothing was dispatched, no screenshot was
\* taken for it and no tool turn appended, and the loop is not back at the model.
C6_FinalAnswerEndsSession ==
    (turn > 0 /\ RequestsOf(candidate) = <<>>) =>
        /\ SessionOver
        /\ reason = "FinalAnswer"
        /\ Len(contents) = 2 * turn
        /\ Last(contents) = ModelTurn(candidate)
        /\ results = <<>> /\ trace = <<>> /\ function_responses = <<>>
        /\ shots = turn - 1

\* C6 witness: a final answer after two dispatched batches
C6_Witness == reason = "FinalAnswer" /\ turn = 3 /\ RequestsOf(candidate) = <<>>

\* C7 (as claimed): once a batch is dispatched the number of results equals the
\* number of requests of the model's turn, also when a rejection cut it short.
C7_AsManyResultsAsRequests ==
    BatchDone => Len(results) = Len(RequestsOf(candidate))

\* C7 (amended): once a batch is dispatched the requests handled are those of the
\* model's turn in order, the i-th result is that of the i-th request, there are as
\* many results as requests unless a rejection cut the batch short, and then the
\* rejected request's result is the last one.
C7_ResultsMatchRequests ==
    BatchDone =>
        /\ function_calls = RequestsOf(candidate)
        /\ Len(results) <= Len(function_calls)
        /\ \A i \in 1..Len(results) : results[i].name = function_calls[i].name
        /\ ~terminated => Len(results) = Len(function_calls)
        /\ terminated => Rejected(Len(results))

\* C7 witness: a batch of two requests cut short at its first request
C7_Witness ==
    /\ BatchDone
    /\ Len(function_calls) = 2
    /\ terminated
    /\ Len(results) = 1

\* C8: for a batch with N results one screenshot and one URL are captured, after
\* every browser call of the batch; N responses are built in result order, each
\* with that URL and that screenshot, and they form the tool turn appended. Until
\* the capture no screenshot is taken in the turn.
C8_OneSnapshotPerBatch ==
    LET captures == SelectSeq(trace, LAMBDA e : e.ev = "screenshot")
    IN  /\ (pc \in {"dispatch", "gate", "try", "capture"}) =>
               (captures = <<>> /\ shots = turn - 1 /\ function_responses = <<>>)
        /\ function_responses # <<>> =>
               /\ Len(captures) = 1
               /\ Last(trace).ev = "screenshot"
               /\ shots = turn
               /\ Len(function_responses) = Len(results)
               /\ \A i \in 1..Len(results) :
                      /\ function_responses[i].name = results[i].name
                      /\ function_responses[i].response.url = Last(trace).s
                      /\ function_responses[i].data = shots
                      /\ \A key \in DOMAIN results[i].result :
                             function_responses[i].response[key] = results[i].result[key]
               /\ Last(contents) = ToolTurn(function_responses)

\* C8 witness: a batch of two results whose second action navigated, captured
C8_Witness ==
    /\ Len(function_responses) = 2
    /\ function_responses[1].response.url = "https://example.com"
    /\ results[1].result # EmptyDict
    /\ results[2].result = EmptyDict

\* C9: the step that runs one action always appends that action's result and goes
\* back to the head of the batch loop at the next position; when the action raised
\* (in validation or in a browser call) the result is Failed with the message,
\* otherwise it is Ok; and a batch without rejection is followed by the next model
\* turn unless the turn limit is reached.
C9_Step ==
    /\ pc = "try" =>
          LET call == function_calls[idx]
              plan == ActionSteps(call.name, call.args)
              raised == \E k \in 1..Len(trace') : trace'[k].pos = idx /\ ~trace'[k].ok
          IN  /\ pc' = "dispatch"
              /\ idx' = idx + 1
              /\ function_calls' = function_calls
              /\ Len(results') = Len(results) + 1
              /\ SubSeq(results', 1, Len(results)) = results
              /\ Last(results').name = call.name
              /\ Last(results').result =
                     (IF plan.error # "" THEN [error |-> plan.error]
                      ELSE IF raised THEN [error |-> BrowserError] ELSE EmptyDict)
    /\ (pc = "capture" /\ ~terminated /\ turn < 10) => pc' = "model"

C9_ErrorsBecomeResults == [][C9_Step]_vars

\* C9 witness: the first action of a batch failed in a browser call, the second
\* failed in validation, and the loop is at the next model turn
C9_Witness ==
    /\ pc = "model"
    /\ Len(results) = 2
    /\ results[1].result = [error |-> BrowserError]
    /\ results[2].result = [error |-> "Missing 'url' argument for navigate"]

\* C10: within a session every step leaves the previous history as a prefix of
\* the new one.
C10_HistoryAppendOnly == [][session' = session => IsPrefix(contents, contents')]_vars

\* C10 witness: a history of a goal, two model turns and a tool turn
C10_Witness == Len(contents) = 4 /\ pc = "main" /\ reason = "FinalAnswer"

\* C11: in a session the first history entry is the session's goal as a user
\* message; at the first model invocation the history holds that entry only, and at
\* every later invocation it holds that entry and the two entries of each turn
\* made in this session, so nothing of an earlier session is passed to the model.
C11_SessionStartsFromGoal ==
    session > 0 =>
        /\ contents # <<>>
        /\ contents[1] = [role |-> "user", parts |-> <<[text |-> user_goal]>>]
        /\ pc = "model" => Len(contents) = 2 * turn + 1

\* C11 witness: the second session of the process is about to make its first
\* model invocation
C11_Witness == session = 2 /\ pc = "model" /\ turn = 0 /\ user_goal = "goal B"

\* C12: for a normalized coordinate in 0..1000 and a dimension > 0 the pixel
\* coordinate lies in 0..dimension and is not above that of the next normalized
\* coordinate (so the conversion is monotonic non-decreasing).
C12_PixelInRangeAndMonotonic ==
    (probe # <<>> /\ probe.done) =>
        /\ 0 <= probe.px
        /\ probe.px <= probe.dim
        /\ probe.px <= probe.px_next

\* C12 witness: the largest coordinate converted to the full height
C12_Witness ==
    /\ probe # <<>> /\ probe.done
    /\ probe.axis = "y" /\ probe.v = 1000 /\ probe.dim = 900 /\ probe.px = 900

\* C13 (as claimed): every action that got past the gate, whether its result is Ok
\* or Failed, made the settle step exactly once, as its last two calls: the
\* quiescence wait and then the pause.
C13_SettleAfterEveryAction ==
    \A p \in 1..Len(results) :
        ~Rejected(p) =>
            LET calls == CallsAt(p)
                settle == SelectSeq(calls, LAMBDA e : ~IsInput(e))
            IN  /\ settle = SettleLog(p)
                /\ Len(calls) >= 2
                /\ SubSeq(calls, Len(calls) - 1, Len(calls)) = SettleLog(p)

\* C14 (as claimed): the pixel coordinate is x * D / 1000 rounded to the nearest
\* integer (a tie going either way).
C14_RoundsToNearest ==
    (probe # <<>> /\ probe.done) =>
        LET exact == probe.v * probe.dim
            d == exact - 1000 * probe.px
        IN  -500 <= d /\ d <= 500

\* C14 (amended): the pixel coordinate is x * D / 1000 truncated to an integer, as
\* the double product gives it: the floor of the exact quotient, or one less where
\* the quotient is a whole number.
C14_Truncates ==
    (probe # <<>> /\ probe.done) =>
        LET exact == probe.v * probe.dim
        IN  \/ probe.px = exact \div 1000
            \/ exact % 1000 = 0 /\ probe.px = (exact \div 1000) - 1

\* C14 witness: 999 of 1000 on the deployed width, converted to 1438 and not 1439
C14_Witness ==
    /\ probe # <<>> /\ probe.done
    /\ probe.axis = "x" /\ probe.v = 999 /\ probe.dim = 1440 /\ probe.px = 1438

\* C15 (as claimed): a scroll_document request with direction d (down when absent)
\* and magnitude m (800 when absent) issues exactly one wheel event, of delta
\* (0, m) for down, (0, -m) for up, (m, 0) for right, (-m, 0) for left; any other
\* value of d issues no wheel event and gives a Failed result.
C15_ScrollDeltaExactNames ==
    Ran("scroll_document") =>
        LET args == function_calls[1].args
            d == Get(args, "direction", "down")
            m == Get(args, "magnitude", 800)
        IN  IF d \in {"down", "up", "left", "right"}
            THEN WheelsAt(1) = <<Delta(d, m)>>
            ELSE WheelsAt(1) = <<>> /\ IsFailed(results[1])

\* C15 (amended): the direction is read without regard to case, and an empty
\* direction counts as absent (down); with that reading a direction among down, up,
\* left, right issues exactly one wheel event of the claimed delta, with an Ok
\* result when the wheel call returns, and any other direction issues no wheel
\* event and gives a Failed result.
C15_ScrollDelta ==
    Ran("scroll_document") =>
        LET args == function_calls[1].args
            given == Get(args, "direction", "down")
            d == IF given = "" THEN "down" ELSE Lower(given)
            m == Get(args, "magnitude", 800)
        IN  IF d \in {"down", "up", "left", "right"}
            THEN /\ WheelsAt(1) = <<Delta(d, m)>>
                 /\ IsFailed(results[1]) <=> ~CallsAt(1)[1].ok
            ELSE WheelsAt(1) = <<>> /\ IsFailed(results[1])

\* C15 witness: a scroll with direction UP and magnitude 2 turned the wheel by
\* (0, -2) and its result is Ok
C15_Witness ==
    /\ Ran("scroll_document")
    /\ function_calls[1].args = [direction |-> "UP", magnitude |-> 2]
    /\ WheelsAt(1) = <<(<<0, -2>>)>>
    /\ results[1].result = EmptyDict

\* C16: a type_text_at request with both coordinates makes its browser events in
\* the order click at the converted coordinates, then (clear_before_typing, true
\* when absent) select-all and delete, then the typing of a non-empty text, then
\* (press_enter, true when absent) Enter: the events made are an initial part of
\* that sequence, only the last event made may have raised, the sequence is cut
\* short only by an event that raised, and the result is Failed exactly when one
\* did. Without a coordinate no event is made and the result is Failed.
C16_TypeTextOrder ==
    Ran("type_text_at") =>
        LET args == function_calls[1].args
            made == InputsAt(1)
        IN  IF {"x", "y"} \subseteq DOMAIN args
            THEN LET click == <<"click", "", denormalize_x(args.x, SCREEN_WIDTH),
                                denormalize_y(args.y, SCREEN_HEIGHT)>>
                     clear == IF Get(args, "clear_before_typing", TRUE)
                              THEN << <<"press", "Meta+A", 0, 0>>, <<"press", "Backspace", 0, 0>> >>
                              ELSE <<>>
                     typing == IF Get(args, "text", "") # ""
                               THEN << <<"type", args.text, 0, 0>> >> ELSE <<>>
                     enter == IF Get(args, "press_enter", TRUE)
                              THEN << <<"press", "Enter", 0, 0>> >> ELSE <<>>
                     expected == <<click>> \o clear \o typing \o enter
                 IN  /\ made # <<>>
                     /\ Len(made) <= Len(expected)
                     /\ \A k \in 1..Len(made) :
                            /\ What(made[k]) = expected[k]
                            /\ ~made[k].ok => k = Len(made)
                     /\ Len(made) < Len(expected) => ~Last(made).ok
                     /\ IsFailed(results[1]) <=> ~Last(made).ok
            ELSE made = <<>> /\ IsFailed(results[1])

\* C16 witness: a request to type "hi" with both flags absent clicked, selected
\* all, and its delete raised: nothing was typed, no Enter was pressed, the result
\* is Failed
C16_Witness ==
    /\ Ran("type_text_at")
    /\ function_calls[1].args = [x |-> 175, y |-> 500, text |-> "hi"]
    /\ Len(InputsAt(1)) = 3
    /\ What(InputsAt(1)[1]) = <<"click", "", 251, 450>>
    /\ ~InputsAt(1)[3].ok
    /\ IsFailed(results[1])

\* C17: a step taken at the safety prompt reads one input; the gate returns on
\* that step only if the input, without regard to case, is an accepted token: with
\* y or yes it returns Proceed (the action goes on to run, acknowledged), with n or
\* no it returns Terminate (the batch ends with this request rejected); after any
\* other input, the empty one included, the prompt is shown again and nothing else
\* has changed.
C17_Step ==
    pc = "gate" =>
        LET input == Lower(decision')
        IN  IF input \in {"y", "yes"}
            THEN /\ pc' = "try"
                 /\ Last(trace') = Logged(idx, Ev("gate", "CONTINUE", 0, 0), TRUE)
                 /\ terminated' = terminated /\ results' = results
            ELSE IF input \in {"n", "no"}
            THEN /\ pc' = "capture"
                 /\ Last(trace') = Logged(idx, Ev("gate", "TERMINATE", 0, 0), TRUE)
                 /\ terminated'
                 /\ Len(results') = Len(results) + 1
            ELSE /\ pc' = "gate"
                 /\ UNCHANGED <<trace, results, terminated, extra_fr_fields, idx>>

C17_GateReturnsOnAcceptedToken == [][C17_Step]_vars

\* C17 witness: the gate has just returned Proceed on the input Yes
C17_Witness ==
    /\ pc = "try"
    /\ decision = "Yes"
    /\ Last(trace) = Logged(idx, Ev("gate", "CONTINUE", 0, 0), TRUE)

\* C18: at every moment of a batch the names of the results so far are, in order,
\* the names of the first requests of the model's turn; a result that is a user
\* rejection is the last result (so there is at most one); and once the batch is
\* over the results are fewer than the requests only if the last result is a
\* rejection, of a request that is not the last one.
C18_ResultsArePrefixOfRequests ==
    LET requests == RequestsOf(candidate)
    IN  turn > 0 =>
            /\ Len(results) <= Len(requests)
            /\ \A i \in 1..Len(results) :
                   /\ results[i].name = requests[i].name
                   /\ IsRejection(results[i]) => i = Len(results)
            /\ (BatchDone /\ Len(results) < Len(requests)) =>
                   (results # <<>> /\ IsRejection(Last(results)))

\* C18 witness: a batch of two flagged requests, the first approved and run, the
\* second rejected: two results, the rejection last
C18_Witness ==
    /\ BatchDone
    /\ Len(RequestsOf(candidate)) = 2
    /\ Len(results) = 2
    /\ ~IsRejection(results[1])
    /\ IsRejection(results[2])
    /\ results[1].extra = [safety_acknowledgement |-> "true"]

\* C19: within a session the history grows by one entry at a time and only in two
\* ways: the model call, made on a history that ends with the goal or a tool
\* entry, appends a model entry; the capture, made on a history that ends with a
\* model entry, appends a tool entry that answers that model entry. So the entries
\* after the goal alternate model entry, tool entry. A session that is over ends
\* with a model entry after a final answer and with a tool entry after a user
\* rejection or the turn limit.
C19_Step ==
    /\ session' = session =>
           \/ contents' = contents
           \/ /\ pc = "model"
              /\ Len(contents) = 1 \/ IsToolEntry(Last(contents))
              /\ contents' = Append(contents, Last(contents'))
              /\ IsModelEntry(Last(contents'))
           \/ /\ pc = "capture"
              /\ IsModelEntry(Last(contents))
              /\ contents' = Append(contents, Last(contents'))
              /\ IsToolEntry(Last(contents'))
              /\ Answers(Last(contents'), Last(contents))
    /\ session' > 0 =>
           /\ pc' = "model" => Len(contents') % 2 = 1
           /\ (SessionOver' /\ reason' = "FinalAnswer") =>
                  (Len(contents') % 2 = 0 /\ IsModelEntry(Last(contents')))
           /\ (SessionOver' /\ reason' \in {"UserTerminated", "TurnLimitReached"}) =>
                  (Len(contents') % 2 = 1 /\ Len(contents') > 1 /\ IsToolEntry(Last(contents')))

C19_HistoryAlternates == [][C19_Step]_vars

\* C19 witness: a session ended by a rejection in its second batch: goal, model
\* entry, tool entry, model entry, tool entry
C19_Witness ==
    /\ SessionOver
    /\ reason = "UserTerminated"
    /\ Len(contents) = 5
    /\ IsToolEntry(contents[3])
    /\ IsModelEntry(contents[4])

\* C20: under the fairness of SpecLive a session that is running eventually ends
\* (by a final answer, a rejection or the turn limit), whatever the model's turns
\* and the operator's answers are.
C20_SessionEventuallyEnds == (session > 0 /\ ~SessionOver) ~> SessionOver

\* C20 witness: the session has ended on the rejection of the second request of
\* its first batch, after the prompt of the first request was answered
C20_Witness ==
    /\ SessionOver
    /\ reason = "UserTerminated"
    /\ Len(contents) = 3
    /\ Len(results) = 2
    /\ Approved(1)

====
